---- MODULE Spec2Model ----
(***************************************************************************)
(* Model of publish/src/command-utils/owner-actions.js: the signer-kind    *)
(* routing of getSignerData, getStagedTransactions, txAlreadyExists and    *)
(* acceptOwnershipBySigner over a Gnosis Safe (coordination API), a legacy *)
(* multisig contract and a plain wallet.                                   *)
(*                                                                         *)
(* The helpers of ./safe-utils and ./multisig-utils are not part of the    *)
(* source tree at hand; they are modelled from the specification and are   *)
(* marked as such where they are defined.                                  *)
(***************************************************************************)
EXTENDS Integers, Sequences, FiniteSets, TLC

VARIABLES
    signerKind,          \* the session's signerKind argument
    session,             \* "start" | "ready" | "exited" (process.exit)
    signerData,          \* the object getSignerData returns
    safeNonce,           \* what the Safe contract at newOwner answers to nonce()
    apiTxs,              \* transactions the Safe coordination API lists
    multisigTxs,         \* the legacy multisig contract's transactions, id = index - 1
    stagedTransactions,  \* the caller's result of the last getStagedTransactions
    last,                \* the outcome of the last call of an exported function
    stagedLog,           \* one entry per staging request the API accepted
    nSubmits,            \* calls of acceptOwnershipBySigner so far
    conc                 \* calls of acceptOwnershipBySigner suspended at an await

vars == <<signerKind, session, signerData, safeNonce, apiTxs, multisigTxs,
          stagedTransactions, last, stagedLog, nSubmits, conc>>

---------------------------------------------------------------------------
(* Bounds of the model *)

MaxEnvTxs == 1
MaxSubmits == 2

---------------------------------------------------------------------------
(* Values *)

\* JavaScript undefined, for numeric fields and arguments
Undefined == -1

KIND == [safe |-> "SAFE", legacy |-> "LEGACY", eoa |-> "EAO"]

\* "EOA" stands for a signerKind string that equals none of KIND's values
SignerKinds == {KIND.safe, KIND.legacy, KIND.eoa, "EOA"}

NewOwner == "0xOwner"
Sender == "0xWallet"
Targets == {"t1", "t2"}
Datas == {"d1", "d2"}
GasPrices == {<<1>>, <<2, 0>>}
GasLimits == {Undefined, 0, 5}

\* What nonce() of the contract at newOwner can answer: nothing, zero, or a
\* positive sequence number.
NonceReplies == {Undefined, 0, 1, 2}

\* What other signers stage: a destination and data, under any sequence number
\* below, at or above the contract's.
EnvProposals == [to : {"t1"}, data : {"d1"}, nonce : 0 .. 2]

NoParams == [to |-> "none", gasPrice |-> <<>>, data |-> "none", gasLimit |-> Undefined]

NoHash == [to |-> "none", data |-> "none", sender |-> "none", nonce |-> Undefined]

\* The record of one call: its arguments, the external calls it made in order,
\* the error it threw ("none" when it returned), and what it produced.
NoCall == [op |-> "none", useFork |-> FALSE, target |-> "none", data |-> "none",
           result |-> FALSE, error |-> "none", calls |-> <<>>,
           txHash |-> NoHash, nonce |-> Undefined, receipts |-> 0, logs |-> 0,
           params |-> NoParams, before |-> Undefined, staged |-> {},
           gasPrice |-> <<>>, gasLimit |-> Undefined]

NoSignerData == [protocolDaoContract |-> "none", currentSafeNonce |-> Undefined,
                 lastNonce |-> Undefined, multisigContract |-> "none",
                 stagedTransactions |-> Undefined]

NoStaged == [defined |-> FALSE, txs |-> {}, ids |-> {}]

\* The callers that may be inside acceptOwnershipBySigner at once
Procs == {1, 2}

\* A call that is not in flight
Idle == [pc |-> "idle", to |-> "none", data |-> "none", lastNonce |-> Undefined,
         newNonce |-> Undefined, start |-> 0]

\* No call in flight, none completed, time 0
NoConc == [procs |-> [p \in Procs |-> Idle], log |-> <<>>, clock |-> 0]

---------------------------------------------------------------------------
(* JavaScript operators *)

Max(a, b) == IF a >= b THEN a ELSE b

\* Falsy with the zero case lost (a test against undefined only)
Falsy_UndefinedOnly(v) == v = Undefined

\* !v for a number or undefined
Falsy(v) == v = Undefined \/ v = 0

\* a >= b, false when either side is undefined
GreaterEq(a, b) == a # Undefined /\ b # Undefined /\ a >= b

---------------------------------------------------------------------------
(* ./safe-utils and ./multisig-utils, modelled from the specification *)

\* Coordinated duplicate rule: some staged entry matches destination and data
\* and its nonce is at least the nonce handed in.
checkExistingPendingTx(staged, target, encodedData, currentSafeNonce) ==
    \E tx \in staged :
        /\ tx.to = target
        /\ tx.data = encodedData
        /\ GreaterEq(tx.nonce, currentSafeNonce)

\* The next sequence number is one more than the larger of the contract's
\* sequence number and the last locally used one; the hash binds destination,
\* data, sender and that number.
getNewTransactionHash(contractNonce, data, to, sender, lastNonce) ==
    LET newNonce == IF lastNonce = Undefined
                    THEN contractNonce + 1
                    ELSE Max(contractNonce, lastNonce) + 1
    IN  [txHash |-> [to |-> to, data |-> data, sender |-> sender, nonce |-> newNonce],
         newNonce |-> newNonce]

\* The legacy contract's total transaction count.
getMultisigTxCount(txs) == Len(txs)

\* Identifiers in [from, to) filtered by the pending and executed flags.
getMultisigTransactionIds(txs, from, to, pending, executed) ==
    {i \in from .. (to - 1) :
        /\ i + 1 \in DOMAIN txs
        /\ \/ (pending /\ ~txs[i + 1].executed)
           \/ (executed /\ txs[i + 1].executed)}

\* Legacy duplicate rule: with no pending set supplied the binding looks the
\* contract's own pending transactions up; the match is on destination and data.
checkMultisigExistingPendingTx(txs, staged, target, encodedData) ==
    LET ids == IF staged = Undefined
               THEN getMultisigTransactionIds(txs, 0, getMultisigTxCount(txs), TRUE, FALSE)
               ELSE staged
    IN  \E i \in ids : txs[i + 1].destination = target /\ txs[i + 1].data = encodedData

---------------------------------------------------------------------------
(* owner-actions.js *)

\* parseUnits with the unit lost: the digits taken as base units
parseUnits_Wei(digits) == digits

\* ethers.utils.parseUnits(gasPrice, 'gwei') on a string of decimal digits:
\* the same digits followed by nine zeros.
parseUnits(digits) == digits \o <<0, 0, 0, 0, 0, 0, 0, 0, 0>>

\* SubmitPath with the fork test lost from the Safe branch
SubmitPath_IgnoresFork(kind, useFork) ==
    IF kind = KIND.safe THEN "safe"
    ELSE IF kind = KIND.legacy THEN "legacy"
    ELSE "direct"

\* The branch of acceptOwnershipBySigner a call takes.
SubmitPath(kind, useFork) ==
    IF kind = KIND.safe /\ ~useFork THEN "safe"
    ELSE IF kind = KIND.legacy THEN "legacy"
    ELSE "direct"

\* ExternalCalls with the Safe branch's return lost: it runs on into the
\* wallet send
ExternalCalls_NoReturn(path) ==
    CASE path = "safe" ->
            <<"getNewTransactionHash", "getSafeSignature", "saveTransactionToApi",
              "wallet.sendTransaction", "tx.wait", "logTx">>
      [] path = "legacy" -> <<"submitMultisigTransaction", "logTx">>
      [] OTHER -> <<"wallet.sendTransaction", "tx.wait", "logTx">>

\* ExternalCalls with the receipt logged before the confirmation is awaited
ExternalCalls_LogBeforeWait(path) ==
    CASE path = "safe" ->
            <<"getNewTransactionHash", "getSafeSignature", "saveTransactionToApi">>
      [] path = "legacy" -> <<"submitMultisigTransaction", "logTx">>
      [] OTHER -> <<"wallet.sendTransaction", "logTx", "tx.wait">>

\* The external calls of each branch, in program order.
ExternalCalls(path) ==
    CASE path = "safe" ->
            <<"getNewTransactionHash", "getSafeSignature", "saveTransactionToApi">>
      [] path = "legacy" -> <<"submitMultisigTransaction", "logTx">>
      [] OTHER -> <<"wallet.sendTransaction", "tx.wait", "logTx">>

\* How many of them can throw (logTx only prints).
Throwing(path) ==
    CASE path = "safe" -> 3
      [] path = "legacy" -> 1
      [] OTHER -> 2

\* The gas arguments a call is given; only the direct branch reads them here
\* (the legacy branch hands them on to submitMultisigTransaction).
GasInputs(path) ==
    IF path = "direct" THEN GasPrices \X GasLimits ELSE {<<<<1>>, Undefined>>}

\* The calls made when the fail-th call throws (0: none throws).
CallsMade(path, fail) ==
    IF fail = 0 THEN ExternalCalls(path) ELSE SubSeq(ExternalCalls(path), 1, fail)

\* DuplicateNonceArg reading the last submitted nonce instead
DuplicateNonceArg_LastNonce(sd) == sd.lastNonce

\* The nonce txAlreadyExists hands to checkExistingPendingTx.
DuplicateNonceArg(sd) == sd.currentSafeNonce

\* LastNonceArg with the argument left out of the call
LastNonceArg_Missing(sd) == Undefined

\* The lastNonce acceptOwnershipBySigner hands to getNewTransactionHash.
LastNonceArg(sd) == sd.lastNonce

\* SignerDataAfter with the assignment moved below the branches, where newNonce
\* is undefined on every path but the Safe one
SignerDataAfter_EveryPath(sd, path, fail, newNonce) ==
    IF fail # 0 THEN sd
    ELSE [sd EXCEPT !.lastNonce = IF path = "safe" THEN newNonce ELSE Undefined]

\* SignerDataAfter storing the nonce that precedes the one just used
SignerDataAfter_Previous(sd, path, fail, newNonce) ==
    IF path = "safe" /\ fail = 0 THEN [sd EXCEPT !.lastNonce = newNonce - 1] ELSE sd

\* SignerDataAfter with the assignment placed before the staging call, so that
\* it is kept when that call throws
SignerDataAfter_BeforeSave(sd, path, fail, newNonce) ==
    IF path = "safe" /\ (fail = 0 \/ fail = 3)
    THEN [sd EXCEPT !.lastNonce = newNonce]
    ELSE sd

\* SignerDataAfter that also moves the nonce fetched at build time forward
SignerDataAfter_RefreshesCurrent(sd, path, fail, newNonce) ==
    IF path = "safe" /\ fail = 0
    THEN [sd EXCEPT !.lastNonce = newNonce, !.currentSafeNonce = newNonce]
    ELSE sd

\* signerData when acceptOwnershipBySigner ends: only the Safe branch, and only
\* when all of its calls returned, writes lastNonce.
SignerDataAfter(sd, path, fail, newNonce) ==
    IF path = "safe" /\ fail = 0 THEN [sd EXCEPT !.lastNonce = newNonce] ELSE sd

\* The transaction the wallet sends on the direct branch.
DirectParams(to, gasPrice, data, gasLimit) ==
    [to |-> to, gasPrice |-> parseUnits(gasPrice), data |-> data,
     gasLimit |-> IF Falsy(gasLimit) THEN Undefined ELSE gasLimit]

\* ListRange stopping one short of the transaction count
ListRange_OneShort(lastTx) ==
    [from |-> 0, to |-> lastTx - 1, pending |-> TRUE, executed |-> FALSE]

\* The range and flags getStagedTransactions hands to getMultisigTransactionIds.
ListRange(lastTx) ==
    [from |-> 0, to |-> lastTx, pending |-> TRUE, executed |-> FALSE]

\* txAlreadyExists with the legacy branch lost
txAlreadyExists_NoLegacy(kind, sd, staged, target, encodedData, txs) ==
    IF kind = KIND.safe
    THEN [result |-> checkExistingPendingTx(staged.txs, target, encodedData,
                                            sd.currentSafeNonce),
          calls |-> <<"checkExistingPendingTx">>]
    ELSE [result |-> FALSE, calls |-> <<>>]

\* txAlreadyExists with the Safe test turned into "not legacy"
txAlreadyExists_NotLegacy(kind, sd, staged, target, encodedData, txs) ==
    IF kind = KIND.legacy
    THEN [result |-> checkMultisigExistingPendingTx(txs, sd.stagedTransactions,
                                                    target, encodedData),
          calls |-> <<"checkMultisigExistingPendingTx">>]
    ELSE [result |-> checkExistingPendingTx(staged.txs, target, encodedData,
                                            sd.currentSafeNonce),
          calls |-> <<"checkExistingPendingTx">>]

\* txAlreadyExists handing the legacy binding its stagedTransactions argument
\* instead of signerData.stagedTransactions
txAlreadyExists_UsesArgument(kind, sd, staged, target, encodedData, txs) ==
    IF kind = KIND.safe
    THEN [result |-> checkExistingPendingTx(staged.txs, target, encodedData,
                                            sd.currentSafeNonce),
          calls |-> <<"checkExistingPendingTx">>]
    ELSE IF kind = KIND.legacy
    THEN [result |-> IF staged.defined
                     THEN \E i \in staged.ids : /\ txs[i + 1].destination = target
                                                /\ txs[i + 1].data = encodedData
                     ELSE checkMultisigExistingPendingTx(txs, Undefined, target,
                                                         encodedData),
          calls |-> <<"checkMultisigExistingPendingTx">>]
    ELSE [result |-> FALSE, calls |-> <<>>]

\* txAlreadyExists: its return value and the external calls it makes.
txAlreadyExists(kind, sd, staged, target, encodedData, txs) ==
    IF kind = KIND.safe
    THEN [result |-> checkExistingPendingTx(staged.txs, target, encodedData,
                                            DuplicateNonceArg(sd)),
          calls |-> <<"checkExistingPendingTx">>]
    ELSE IF kind = KIND.legacy
    THEN [result |-> checkMultisigExistingPendingTx(txs, sd.stagedTransactions,
                                                    target, encodedData),
          calls |-> <<"checkMultisigExistingPendingTx">>]
    ELSE [result |-> FALSE, calls |-> <<>>]

---------------------------------------------------------------------------
(* The session *)

Init ==
    /\ signerKind \in SignerKinds
    /\ session = "start"
    /\ signerData = NoSignerData
    /\ safeNonce \in NonceReplies
    /\ apiTxs = {}
    /\ multisigTxs = <<>>
    /\ stagedTransactions = NoStaged
    /\ last = NoCall
    /\ stagedLog = <<>>
    /\ nSubmits = 0
    /\ conc = NoConc

\* getSignerData({ signerKind, providerUrl, newOwner })
GetSignerData ==
    /\ session = "start"
    /\ LET isSafe == signerKind = KIND.safe
           isLegacy == signerKind = KIND.legacy
           exits == isSafe /\ Falsy(safeNonce)
           sd == [NoSignerData EXCEPT
                    !.protocolDaoContract = IF isSafe THEN NewOwner ELSE @,
                    !.currentSafeNonce = IF isSafe THEN safeNonce ELSE @,
                    !.multisigContract = IF isLegacy THEN NewOwner ELSE @]
       IN  /\ session' = IF exits THEN "exited" ELSE "ready"
           /\ signerData' = IF exits THEN NoSignerData ELSE sd
           /\ last' = [NoCall EXCEPT
                         !.op = "getSignerData",
                         !.error = IF exits THEN "Cannot access safe. Exiting." ELSE "none",
                         !.calls = IF isSafe THEN <<"getSafeInstance", "getSafeNonce">>
                                   ELSE IF isLegacy THEN <<"getMultisigInstance">>
                                   ELSE <<>>]
    /\ UNCHANGED <<signerKind, safeNonce, apiTxs, multisigTxs, stagedTransactions,
                   stagedLog, nSubmits, conc>>

\* getStagedTransactions({ signerKind, signerData, network })
GetStagedTransactions ==
    /\ session = "ready"
    /\ LET isSafe == signerKind = KIND.safe
           isLegacy == signerKind = KIND.legacy
           lastTx == getMultisigTxCount(multisigTxs)
           range == ListRange(lastTx)
       IN  /\ stagedTransactions' =
                IF isSafe THEN [defined |-> TRUE, txs |-> apiTxs, ids |-> {}]
                ELSE IF isLegacy
                THEN [defined |-> TRUE, txs |-> {},
                      ids |-> getMultisigTransactionIds(multisigTxs, range.from, range.to,
                                                        range.pending, range.executed)]
                ELSE NoStaged
           /\ last' = [NoCall EXCEPT
                         !.op = "getStagedTransactions",
                         !.before = signerData.lastNonce,
                         !.calls = IF isSafe THEN <<"getSafeTransactions">>
                                   ELSE IF isLegacy
                                   THEN <<"getMultisigTxCount", "getMultisigTransactionIds">>
                                   ELSE <<>>]
    /\ UNCHANGED <<signerKind, session, signerData, safeNonce, apiTxs, multisigTxs,
                   stagedLog, nSubmits, conc>>

\* The stagedTransactions argument of txAlreadyExists: what getStagedTransactions
\* returned for the two contract kinds; any pending set otherwise, as nothing
\* produces one for a plain wallet.
StagedArguments ==
    IF signerKind \in {KIND.safe, KIND.legacy}
    THEN {stagedTransactions}
    ELSE {stagedTransactions} \cup
         {[defined |-> TRUE, txs |-> {tx}, ids |-> {}] : tx \in EnvProposals}

\* txAlreadyExists({ signerKind, signerData, stagedTransactions, target, encodedData })
TxAlreadyExists ==
    /\ session = "ready"
    /\ signerKind = KIND.safe => stagedTransactions.defined
    /\ \E target \in Targets, encodedData \in Datas, staged \in StagedArguments :
         LET r == txAlreadyExists(signerKind, signerData, staged,
                                  target, encodedData, multisigTxs)
         IN  last' = [NoCall EXCEPT
                        !.op = "txAlreadyExists",
                        !.target = target,
                        !.data = encodedData,
                        !.before = signerData.lastNonce,
                        !.staged = staged.txs,
                        !.result = r.result,
                        !.calls = r.calls]
    /\ UNCHANGED <<signerKind, session, signerData, safeNonce, apiTxs, multisigTxs,
                   stagedTransactions, stagedLog, nSubmits, conc>>

\* acceptOwnershipBySigner({ signerKind, signerData, useFork, ..., encodedData, to,
\* wallet, gasLimit, gasPrice }); the fail-th external call throws (0: none).
AcceptOwnershipBySigner ==
    /\ session = "ready"
    /\ nSubmits < MaxSubmits
    /\ \E useFork \in BOOLEAN, to \in Targets, encodedData \in Datas :
         LET path == SubmitPath(signerKind, useFork)
         IN  \E fail \in 0 .. Throwing(path), gas \in GasInputs(path) :
               LET h == getNewTransactionHash(safeNonce, encodedData, to, Sender,
                                              LastNonceArg(signerData))
                   gasPrice == gas[1]
                   gasLimit == gas[2]
                   ok == fail = 0
                   staged == path = "safe" /\ ok
                   sent == path = "direct" /\ fail # 1
                   mined == path = "legacy" /\ ok
               IN  /\ signerData' = SignerDataAfter(signerData, path, fail, h.newNonce)
                   /\ apiTxs' = IF staged
                                THEN apiTxs \cup {[to |-> to, data |-> encodedData,
                                                   nonce |-> h.newNonce]}
                                ELSE apiTxs
                   /\ stagedLog' = IF staged
                                   THEN Append(stagedLog,
                                               [to |-> to, data |-> encodedData,
                                                nonce |-> h.newNonce,
                                                tracked |-> signerData'.lastNonce])
                                   ELSE stagedLog
                   /\ multisigTxs' = IF mined
                                     THEN Append(multisigTxs,
                                                 [destination |-> to, data |-> encodedData,
                                                  executed |-> FALSE])
                                     ELSE multisigTxs
                   /\ last' = [NoCall EXCEPT
                                 !.op = "acceptOwnershipBySigner",
                                 !.useFork = useFork,
                                 !.target = to,
                                 !.data = encodedData,
                                 !.before = signerData.lastNonce,
                                 !.gasPrice = gasPrice,
                                 !.gasLimit = gasLimit,
                                 !.error = IF ok THEN "none"
                                           ELSE ExternalCalls(path)[fail],
                                 !.calls = CallsMade(path, fail),
                                 !.txHash = IF path = "safe" /\ fail # 1
                                            THEN h.txHash ELSE NoHash,
                                 !.nonce = IF staged THEN h.newNonce ELSE Undefined,
                                 !.receipts = IF path # "safe" /\ ok THEN 1 ELSE 0,
                                 !.logs = IF path # "safe" /\ ok THEN 1 ELSE 0,
                                 !.params = IF sent
                                            THEN DirectParams(to, gasPrice, encodedData,
                                                              gasLimit)
                                            ELSE NoParams]
    /\ nSubmits' = nSubmits + 1
    /\ UNCHANGED <<signerKind, session, safeNonce, stagedTransactions, conc>>

---------------------------------------------------------------------------
(* Other signers *)

\* Another signer stages a proposal with the coordination service.
ApiOtherProposal ==
    /\ session = "ready"
    /\ signerKind = KIND.safe
    /\ Cardinality(apiTxs) < MaxEnvTxs + Len(stagedLog)
    /\ \E tx \in EnvProposals : apiTxs' = apiTxs \cup {tx}
    /\ UNCHANGED <<signerKind, session, signerData, safeNonce, multisigTxs,
                   stagedTransactions, last, stagedLog, nSubmits, conc>>

\* Another signer submits a transaction to the legacy multisig.
MultisigOtherSubmit ==
    /\ session = "ready"
    /\ signerKind = KIND.legacy
    /\ Len(multisigTxs) < MaxEnvTxs
    /\ \E tx \in EnvProposals :
         multisigTxs' = Append(multisigTxs,
                               [destination |-> tx.to, data |-> tx.data,
                                executed |-> FALSE])
    /\ UNCHANGED <<signerKind, session, signerData, safeNonce, apiTxs,
                   stagedTransactions, last, stagedLog, nSubmits, conc>>

\* The legacy multisig executes a pending transaction.
MultisigExecute ==
    /\ session = "ready"
    /\ signerKind = KIND.legacy
    /\ Cardinality({j \in DOMAIN multisigTxs : multisigTxs[j].executed}) < MaxEnvTxs
    /\ \E i \in DOMAIN multisigTxs :
         /\ ~multisigTxs[i].executed
         /\ multisigTxs' = [multisigTxs EXCEPT ![i].executed = TRUE]
    /\ UNCHANGED <<signerKind, session, signerData, safeNonce, apiTxs,
                   stagedTransactions, last, stagedLog, nSubmits, conc>>

Next ==
    \/ GetSignerData
    \/ GetStagedTransactions
    \/ TxAlreadyExists
    \/ AcceptOwnershipBySigner
    \/ ApiOtherProposal
    \/ MultisigOtherSubmit
    \/ MultisigExecute

Spec == Init /\ [][Next]_vars

---------------------------------------------------------------------------
(* Calls of acceptOwnershipBySigner that overlap: the Safe branch outside fork
   mode, one step per stretch between two awaits *)

\* A caller enters the Safe branch: the arguments of getNewTransactionHash are
\* evaluated, signerData.lastNonce among them, and the call suspends at the
\* first await.
ConcCall(p) ==
    /\ session = "ready"
    /\ SubmitPath(signerKind, FALSE) = "safe"
    /\ nSubmits < MaxSubmits
    /\ conc.procs[p].pc = "idle"
    /\ \E to \in Targets, encodedData \in Datas :
         conc' = [conc EXCEPT
                    !.procs[p] = [pc |-> "hash", to |-> to, data |-> encodedData,
                                  lastNonce |-> LastNonceArg(signerData),
                                  newNonce |-> Undefined,
                                  start |-> conc.clock + 1],
                    !.clock = conc.clock + 1]
    /\ nSubmits' = nSubmits + 1
    /\ UNCHANGED <<signerKind, session, signerData, safeNonce, apiTxs, multisigTxs,
                   stagedTransactions, last, stagedLog>>

\* getNewTransactionHash returns: the hash is signed and the staging request
\* goes out with newNonce; the call suspends at the second await.
ConcHashReturns(p) ==
    /\ conc.procs[p].pc = "hash"
    /\ LET c == conc.procs[p]
           h == getNewTransactionHash(safeNonce, c.data, c.to, Sender, c.lastNonce)
       IN  conc' = [conc EXCEPT !.procs[p].pc = "save",
                                !.procs[p].newNonce = h.newNonce]
    /\ UNCHANGED <<signerKind, session, signerData, safeNonce, apiTxs, multisigTxs,
                   stagedTransactions, last, stagedLog, nSubmits>>

\* saveTransactionToApi returns: the service holds the transaction under
\* newNonce, and signerData.lastNonce is written.
ConcSaveReturns(p) ==
    /\ conc.procs[p].pc = "save"
    /\ LET c == conc.procs[p]
       IN  /\ apiTxs' = apiTxs \cup {[to |-> c.to, data |-> c.data, nonce |-> c.newNonce]}
           /\ signerData' = SignerDataAfter(signerData, "safe", 0, c.newNonce)
           /\ conc' = [conc EXCEPT
                         !.procs[p] = Idle,
                         !.log = Append(conc.log,
                                        [to |-> c.to, data |-> c.data,
                                         nonce |-> c.newNonce,
                                         start |-> c.start, end |-> conc.clock + 1]),
                         !.clock = conc.clock + 1]
    /\ UNCHANGED <<signerKind, session, safeNonce, multisigTxs, stagedTransactions,
                   last, stagedLog, nSubmits>>

\* An awaited call throws: the caller gets the error, nothing is written.
ConcThrows(p) ==
    /\ conc.procs[p].pc \in {"hash", "save"}
    /\ conc' = [conc EXCEPT !.procs[p] = Idle]
    /\ UNCHANGED <<signerKind, session, signerData, safeNonce, apiTxs, multisigTxs,
                   stagedTransactions, last, stagedLog, nSubmits>>

InitConc == Init /\ signerKind = KIND.safe

NextConc ==
    \/ GetSignerData
    \/ \E p \in Procs : ConcCall(p)
    \/ \E p \in Procs : ConcHashReturns(p)
    \/ \E p \in Procs : ConcSaveReturns(p)
    \/ \E p \in Procs : ConcThrows(p)

SpecConc == InitConc /\ [][NextConc]_vars

---------------------------------------------------------------------------
(* A Safe session that follows the caller's control flow: for each wanted
   transaction a listing, then a duplicate check of it, then its submission
   only when the check answered false; one call at a time *)

FlowList ==
    /\ last.op \in {"getSignerData", "txAlreadyExists", "acceptOwnershipBySigner"}
    /\ GetStagedTransactions

FlowCheck ==
    /\ last.op = "getStagedTransactions"
    /\ TxAlreadyExists

FlowSubmit ==
    /\ last.op = "txAlreadyExists"
    /\ ~last.result
    /\ AcceptOwnershipBySigner
    /\ last'.target = last.target
    /\ last'.data = last.data

InitFlow == Init /\ signerKind = KIND.safe

NextFlow ==
    \/ GetSignerData
    \/ FlowList
    \/ FlowCheck
    \/ FlowSubmit
    \/ ApiOtherProposal

SpecFlow == InitFlow /\ [][NextFlow]_vars

---------------------------------------------------------------------------
(* Properties *)

IsSubmit == last.op = "acceptOwnershipBySigner"
IsDuplicateCheck == last.op = "txAlreadyExists"
IsSafe == signerKind = KIND.safe
IsLegacy == signerKind = KIND.legacy
Recognized == signerKind \in {KIND.safe, KIND.legacy, KIND.eoa}

\* The entries of a pending set that have the candidate's destination and data
Matching(staged, target, encodedData) ==
    {tx \in staged : tx.to = target /\ tx.data = encodedData}

\* C1: on a Safe handle outside fork mode, of any two consecutive successful
\* submissions the later one sends a strictly greater nonce to the coordination
\* service and leaves a strictly greater signerData.lastNonce.
C1_StrictlyIncreasing ==
    \A i \in 1 .. (Len(stagedLog) - 1) :
        /\ stagedLog[i].nonce < stagedLog[i + 1].nonce
        /\ stagedLog[i].tracked < stagedLog[i + 1].tracked

\* C1 witness: two submissions on one handle have been staged.
C1_Witness == IsSafe /\ Len(stagedLog) >= 2

\* C2: signerData.lastNonce never decreases: once it holds a number, every step
\* (a build, a listing, a duplicate check, a submission that succeeds or fails,
\* in fork mode or not) leaves it at that number or a greater one.
C2_NeverDecreases ==
    [][signerData.lastNonce # Undefined =>
          /\ signerData'.lastNonce # Undefined
          /\ signerData'.lastNonce >= signerData.lastNonce]_vars

\* C2 witness: after a staged submission, a later submission threw or went
\* through fork mode, and lastNonce is still set.
C2_Witness ==
    /\ IsSafe /\ IsSubmit
    /\ Len(stagedLog) >= 1
    /\ (last.error # "none" \/ last.useFork)
    /\ signerData.lastNonce # Undefined

\* The sequence number the handle tracks: the last submitted one once a
\* submission has been staged, the one fetched at build time before that.
TrackedSequence ==
    IF signerData.lastNonce # Undefined
    THEN signerData.lastNonce
    ELSE signerData.currentSafeNonce

\* C3 as stated: on a Safe handle txAlreadyExists returns true exactly when some
\* pending entry matches destination and data and has a nonce greater than or
\* equal to the handle's tracked sequence number, also after submissions have
\* advanced it.
C3_AgainstTracked ==
    (IsSafe /\ IsDuplicateCheck) =>
        (last.result <=>
            \E tx \in Matching(last.staged, last.target, last.data) :
                tx.nonce >= TrackedSequence)

\* C3 amended: on a Safe handle txAlreadyExists returns true exactly when some
\* pending entry matches destination and data and has a nonce greater than or
\* equal to signerData.currentSafeNonce, the nonce fetched when the handle was
\* built, which submissions do not advance; a matching entry below it is ignored.
C3_AgainstCurrentSafeNonce ==
    (IsSafe /\ IsDuplicateCheck) =>
        (last.result <=>
            \E tx \in Matching(last.staged, last.target, last.data) :
                tx.nonce >= signerData.currentSafeNonce)

\* C3 witness: after a submission advanced lastNonce, a check answered true
\* although every matching entry lies below lastNonce.
C3_Witness ==
    /\ IsSafe /\ IsDuplicateCheck
    /\ signerData.lastNonce # Undefined
    /\ last.result
    /\ \A tx \in Matching(last.staged, last.target, last.data) :
          tx.nonce < signerData.lastNonce

\* C4: on a Safe handle built at contract nonce n, the first successful
\* submission outside fork mode hashes and stages nonce n + 1 and sets lastNonce
\* to n + 1; each later one uses the previous lastNonce plus one; the nonce used
\* is max(contract nonce, last locally used nonce) + 1.
C4_NextSequence ==
    /\ Len(stagedLog) >= 1 => stagedLog[1].nonce = signerData.currentSafeNonce + 1
    /\ \A i \in 1 .. Len(stagedLog) : stagedLog[i].tracked = stagedLog[i].nonce
    /\ \A i \in 1 .. (Len(stagedLog) - 1) :
          stagedLog[i + 1].nonce = stagedLog[i].tracked + 1
    /\ (IsSubmit /\ last.nonce # Undefined) =>
          /\ last.nonce = Max(signerData.currentSafeNonce, last.before) + 1
          /\ last.txHash.nonce = last.nonce
          /\ signerData.lastNonce = last.nonce

\* C4 witness: the second staged submission of a handle has just returned.
C4_Witness ==
    /\ IsSubmit /\ last.nonce # Undefined
    /\ Len(stagedLog) = 2
    /\ stagedLog[2].nonce = signerData.currentSafeNonce + 2

\* C5: getSignerData for a Safe whose nonce() answers an unusable value (nothing,
\* or zero) ends the session: no handle is returned, the nonce was fetched once,
\* and no listing, duplicate check or submission follows.
C5_UnusableNonceIsFatal ==
    (IsSafe /\ (safeNonce = Undefined \/ safeNonce = 0) /\ session # "start") =>
        /\ session = "exited"
        /\ signerData = NoSignerData
        /\ last.op = "getSignerData"
        /\ last.error = "Cannot access safe. Exiting."
        /\ last.calls = <<"getSafeInstance", "getSafeNonce">>
        /\ stagedTransactions = NoStaged
        /\ nSubmits = 0

\* C5 witness: the session was ended by a zero nonce.
C5_Witness == IsSafe /\ safeNonce = 0 /\ session = "exited"

\* C6 as stated: with a signerKind that is none of KIND's three values every
\* exported function fails with UnsupportedSignerKind and makes no external
\* call; a submission never reaches wallet.sendTransaction.
C6_UnsupportedKindFails ==
    (~Recognized /\ last.op # "none") =>
        /\ last.error = "UnsupportedSignerKind"
        /\ last.calls = <<>>

\* C7 as stated: for every kind, a duplicate check after a listing answers true
\* exactly when some pending entry has the candidate's destination and data.
C7_MatchAlone ==
    [][(last' # last /\ last'.op = "txAlreadyExists" /\ Recognized
        /\ (IsSafe \/ IsLegacy => stagedTransactions.defined)) =>
          (last'.result <=>
             IF IsSafe
             THEN Matching(last'.staged, last'.target, last'.data) # {}
             ELSE IF IsLegacy
             THEN \E i \in DOMAIN multisigTxs :
                     /\ ~multisigTxs[i].executed
                     /\ multisigTxs[i].destination = last'.target
                     /\ multisigTxs[i].data = last'.data
             ELSE FALSE)]_vars

\* C7 amended: a duplicate check after a listing answers true exactly when: for
\* a Safe, some listed entry has the candidate's destination and data and a
\* nonce not below the nonce fetched when the handle was built; for the legacy
\* multisig, some transaction the contract holds pending and not executed has
\* them; for a plain wallet, never.
C7_MatchAndNotStale ==
    [][(last' # last /\ last'.op = "txAlreadyExists" /\ Recognized
        /\ (IsSafe \/ IsLegacy => stagedTransactions.defined)) =>
          (last'.result <=>
             IF IsSafe
             THEN \E tx \in Matching(last'.staged, last'.target, last'.data) :
                     tx.nonce >= signerData.currentSafeNonce
             ELSE IF IsLegacy
             THEN \E i \in DOMAIN multisigTxs :
                     /\ ~multisigTxs[i].executed
                     /\ multisigTxs[i].destination = last'.target
                     /\ multisigTxs[i].data = last'.data
             ELSE FALSE)]_vars

\* C7 witness: on the legacy multisig, after a listing that returned a pending
\* identifier, a candidate equal to a pending transaction was found a duplicate.
C7_Witness ==
    /\ IsLegacy /\ IsDuplicateCheck
    /\ stagedTransactions.ids # {}
    /\ last.result
    /\ \E i \in DOMAIN multisigTxs :
          /\ ~multisigTxs[i].executed
          /\ multisigTxs[i].destination = last.target
          /\ multisigTxs[i].data = last.data

\* C8: for the plain-wallet kind txAlreadyExists returns false whatever pending
\* set, destination and data it is given, and makes no external call.
C8_DirectNeverDuplicate ==
    (signerKind = KIND.eoa /\ IsDuplicateCheck) =>
        /\ last.result = FALSE
        /\ last.calls = <<>>

\* C8 witness: the plain-wallet check was given a pending set with an entry
\* equal to the candidate.
C8_Witness ==
    /\ signerKind = KIND.eoa /\ IsDuplicateCheck
    /\ Matching(last.staged, last.target, last.data) # {}

\* C9: a submission carries out one protocol only. Safe outside fork mode: the
\* hash, sign and stage calls and nothing else. Legacy, in fork mode or not: the
\* multisig submission. Plain wallet, and Safe in fork mode: the wallet send; in
\* fork mode the coordination service is not called and lastNonce stays.
C9_OneProtocol ==
    (IsSubmit /\ Recognized) =>
        LET made == {last.calls[i] : i \in DOMAIN last.calls}
            safeCalls == {"getNewTransactionHash", "getSafeSignature",
                          "saveTransactionToApi"}
            legacyCalls == {"submitMultisigTransaction", "logTx"}
            directCalls == {"wallet.sendTransaction", "tx.wait", "logTx"}
        IN  /\ made # {}
            /\ IF IsSafe /\ ~last.useFork
               THEN made \subseteq safeCalls /\ last.calls[1] = "getNewTransactionHash"
               ELSE IF IsLegacy
               THEN made \subseteq legacyCalls
                    /\ last.calls[1] = "submitMultisigTransaction"
               ELSE made \subseteq directCalls
                    /\ last.calls[1] = "wallet.sendTransaction"
            /\ last.useFork =>
                  /\ made \cap safeCalls = {}
                  /\ signerData.lastNonce = last.before
                  /\ last.nonce = Undefined

\* C9 witness: a Safe submission in fork mode went through the wallet after an
\* earlier one had been staged.
C9_Witness ==
    /\ IsSafe /\ IsSubmit /\ last.useFork
    /\ last.error = "none"
    /\ Len(stagedLog) >= 1

\* C10: a Safe submission outside fork mode never calls wallet.sendTransaction
\* or submitMultisigTransaction, whether it returns or throws; it yields no
\* receipt and logs no transaction; when it returns, a nonce has been staged.
C10_NoChainSubmission ==
    (IsSafe /\ IsSubmit /\ ~last.useFork) =>
        /\ \A i \in DOMAIN last.calls :
              last.calls[i] \notin {"wallet.sendTransaction", "tx.wait",
                                    "submitMultisigTransaction", "logTx"}
        /\ last.receipts = 0
        /\ last.logs = 0
        /\ last.params = NoParams
        /\ last.error = "none" => last.nonce # Undefined

\* C10 witness: a Safe submission outside fork mode threw at the staging call.
C10_Witness ==
    /\ IsSafe /\ IsSubmit /\ ~last.useFork
    /\ last.error = "saveTransactionToApi"

\* How often a call occurs among the external calls of the last operation
Count(call) == Cardinality({i \in DOMAIN last.calls : last.calls[i] = call})

\* C11: on the paths that yield a receipt (legacy, plain wallet, Safe in fork
\* mode) a submission that returns has logged exactly one transaction, as its
\* last step, after the transaction was submitted and its confirmation awaited;
\* a submission that threw has logged nothing.
C11_LogAfterConfirmation ==
    (IsSubmit /\ (~IsSafe \/ last.useFork)) =>
        IF last.error = "none"
        THEN /\ Count("logTx") = 1
             /\ last.logs = 1 /\ last.receipts = 1
             /\ last.calls[Len(last.calls)] = "logTx"
             /\ IF IsLegacy
                THEN last.calls = <<"submitMultisigTransaction", "logTx">>
                ELSE last.calls = <<"wallet.sendTransaction", "tx.wait", "logTx">>
        ELSE /\ Count("logTx") = 0
             /\ last.logs = 0 /\ last.receipts = 0

\* C11 witness: a wallet send went out and its confirmation failed.
C11_Witness ==
    /\ IsSubmit /\ ~IsSafe /\ ~IsLegacy
    /\ last.error = "tx.wait"
    /\ last.params # NoParams

\* C12: when a step of a Safe submission outside fork mode throws (the hash, the
\* signature or the staging request), the error reaches the caller, every
\* external call was made at most once, nothing was staged, and lastNonce is
\* what it was before the call.
C12_FailureLeavesSequence ==
    (IsSafe /\ IsSubmit /\ ~last.useFork /\ last.error # "none") =>
        /\ last.error \in {"getNewTransactionHash", "getSafeSignature",
                           "saveTransactionToApi"}
        /\ last.calls[Len(last.calls)] = last.error
        /\ \A i, j \in DOMAIN last.calls : last.calls[i] = last.calls[j] => i = j
        /\ last.nonce = Undefined
        /\ signerData.lastNonce = last.before

\* C12 witness: the staging request of a second submission was rejected after
\* a first one had been staged.
C12_Witness ==
    /\ IsSafe /\ IsSubmit /\ ~last.useFork
    /\ last.error = "saveTransactionToApi"
    /\ Len(stagedLog) = 1

\* C13: lastNonce is not safe under overlapping submissions. Two staged
\* submissions of one handle carry the same nonce only if the later one entered
\* acceptOwnershipBySigner before the earlier one wrote lastNonce; calls that
\* each complete before the next starts never share a nonce.
C13_SharedNonceOnlyWhenOverlapping ==
    \A i, j \in DOMAIN conc.log :
        (i < j /\ conc.log[i].nonce = conc.log[j].nonce) =>
            conc.log[j].start < conc.log[i].end

\* C13 witness: two different transactions were staged under one nonce.
C13_Witness ==
    \E i, j \in DOMAIN conc.log :
        /\ i < j
        /\ conc.log[i].nonce = conc.log[j].nonce
        /\ <<conc.log[i].to, conc.log[i].data>> # <<conc.log[j].to, conc.log[j].data>>

\* C14: once getSignerData has returned, signerData changes only in a Safe
\* submission outside fork mode that returned, and only in lastNonce; listings,
\* duplicate checks, legacy, plain-wallet and fork-mode submissions and failed
\* submissions leave every field; currentSafeNonce and the contract reference
\* are never written again and no later call fetches them again.
C14_HandleFrame ==
    [][session = "ready" =>
          /\ signerData' # signerData =>
                /\ IsSafe
                /\ last'.op = "acceptOwnershipBySigner"
                /\ ~last'.useFork
                /\ last'.error = "none"
                /\ signerData' = [signerData EXCEPT !.lastNonce = last'.nonce]
          /\ last' # last =>
                \A i \in DOMAIN last'.calls :
                    last'.calls[i] \notin {"getSafeInstance", "getSafeNonce",
                                           "getMultisigInstance"}]_vars

\* C14 witness: a listing ran on a handle whose lastNonce two submissions had
\* advanced.
C14_Witness ==
    /\ IsSafe
    /\ last.op = "getStagedTransactions"
    /\ signerData.lastNonce = signerData.currentSafeNonce + 2
    /\ signerData.protocolDaoContract = NewOwner

\* The staged submissions of the session, without the last one when the last
\* call is the one that staged it
EarlierStaged ==
    IF IsSubmit /\ last.nonce # Undefined
    THEN SubSeq(stagedLog, 1, Len(stagedLog) - 1)
    ELSE stagedLog

\* C15: in a Safe session that lists, checks and then submits only what is not
\* a duplicate, with a service that keeps listing what it accepted under the
\* nonce it was staged with, a destination and data pair is staged at most
\* once: after its staging every duplicate check of it answers true, and no
\* further staging call is made for it.
C15_StagedAtMostOnce ==
    /\ \A i, j \in DOMAIN stagedLog :
          i < j => <<stagedLog[i].to, stagedLog[i].data>>
                     # <<stagedLog[j].to, stagedLog[j].data>>
    /\ IsDuplicateCheck =>
          \A i \in DOMAIN stagedLog :
              (stagedLog[i].to = last.target /\ stagedLog[i].data = last.data)
                  => last.result
    /\ (IsSubmit /\ ~last.useFork) =>
          \A i \in DOMAIN EarlierStaged :
              <<EarlierStaged[i].to, EarlierStaged[i].data>>
                  # <<last.target, last.data>>

\* C15 witness: after two stagings, the pair staged first, which no other
\* signer proposed, is checked again and found a duplicate.
C15_Witness ==
    /\ IsDuplicateCheck /\ last.result
    /\ Len(stagedLog) = 2
    /\ stagedLog[1].to = last.target /\ stagedLog[1].data = last.data
    /\ last.target = "t2"

\* The pending sets a caller can hand to txAlreadyExists on the legacy multisig:
\* none, or any set of identifiers of the contract's transactions
LegacyPendingSets ==
    {NoStaged} \cup
    {[defined |-> TRUE, txs |-> {}, ids |-> ids] :
        ids \in SUBSET (0 .. (Len(multisigTxs) - 1))}

\* C16: on the legacy multisig the answer of txAlreadyExists is the same for
\* every stagedTransactions argument, and is true exactly when the contract
\* holds a transaction, pending and not executed, with the candidate's
\* destination and data; no identifier or sequence number enters.
C16_LegacyIgnoresPendingSet ==
    (IsLegacy /\ IsDuplicateCheck) =>
        \A staged \in LegacyPendingSets :
            txAlreadyExists(signerKind, signerData, staged, last.target, last.data,
                            multisigTxs).result
            <=> \E i \in DOMAIN multisigTxs :
                    /\ ~multisigTxs[i].executed
                    /\ multisigTxs[i].destination = last.target
                    /\ multisigTxs[i].data = last.data

\* C16 witness: a duplicate was found although the listing the caller holds is
\* empty, and an executed transaction with the same destination and data exists.
C16_Witness ==
    /\ IsLegacy /\ IsDuplicateCheck /\ last.result
    /\ stagedTransactions.defined /\ stagedTransactions.ids = {}
    /\ \E i \in DOMAIN multisigTxs :
          /\ multisigTxs[i].executed
          /\ multisigTxs[i].destination = last.target
          /\ multisigTxs[i].data = last.data

\* C17: on the legacy multisig every call of getStagedTransactions reads the
\* transaction count first and then asks for the identifiers from 0 up to that
\* count with pending true and executed false; it starts from 0 each time, so
\* it returns exactly the transactions that are not executed when it is called.
C17_LegacyListsAllPending ==
    [][(IsLegacy /\ GetStagedTransactions) =>
          /\ last'.calls = <<"getMultisigTxCount", "getMultisigTransactionIds">>
          /\ stagedTransactions'.defined
          /\ stagedTransactions'.ids =
                {i \in 0 .. (Len(multisigTxs) - 1) : ~multisigTxs[i + 1].executed}]_vars

\* C17 witness: a listing returned the last transaction of a contract that
\* also holds an executed one.
C17_Witness ==
    /\ IsLegacy
    /\ last.op = "getStagedTransactions"
    /\ Len(multisigTxs) >= 2
    /\ (Len(multisigTxs) - 1) \in stagedTransactions.ids
    /\ ~multisigTxs[Len(multisigTxs)].executed
    /\ \E i \in DOMAIN multisigTxs : multisigTxs[i].executed

\* C18 as stated: for the plain-wallet kind getSignerData returns an object with
\* no state and getStagedTransactions returns a set with zero entries, neither
\* calling anything; for the legacy multisig getSignerData only builds the
\* contract binding.
C18_DirectEmptySet ==
    /\ (signerKind = KIND.eoa /\ last.op = "getSignerData") =>
          signerData = NoSignerData /\ last.calls = <<>>
    /\ (signerKind = KIND.eoa /\ last.op = "getStagedTransactions") =>
          /\ stagedTransactions.defined
          /\ stagedTransactions.txs = {} /\ stagedTransactions.ids = {}
          /\ last.calls = <<>>
    /\ (IsLegacy /\ last.op = "getSignerData") =>
          last.calls = <<"getMultisigInstance">>

\* A submission that took the wallet send for the plain-wallet kind or for a
\* Safe in fork mode, and whose transaction went out
IsDirectSend ==
    /\ IsSubmit
    /\ signerKind = KIND.eoa \/ (IsSafe /\ last.useFork)
    /\ last.params # NoParams

\* What every wallet send carries: the destination, the data, the gas price in
\* base units (the gwei digits followed by nine zeros), and, when it returned,
\* the confirmation awaited before the receipt is logged.
DirectSendCarries ==
    /\ last.params.to = last.target
    /\ last.params.data = last.data
    /\ last.params.gasPrice = last.gasPrice \o <<0, 0, 0, 0, 0, 0, 0, 0, 0>>
    /\ last.gasPrice = <<2, 0>> =>
          last.params.gasPrice = <<2, 0, 0, 0, 0, 0, 0, 0, 0, 0, 0>>
    /\ last.params.gasLimit # Undefined => last.params.gasLimit = last.gasLimit
    /\ last.error = "none" =>
          last.calls = <<"wallet.sendTransaction", "tx.wait", "logTx">>

\* C19 as stated: the wallet send carries destination, data and the gas price
\* times 10^9, and a gas limit if and only if a gas limit was given.
C19_GasLimitIffGiven ==
    IsDirectSend =>
        /\ DirectSendCarries
        /\ last.params.gasLimit # Undefined <=> last.gasLimit # Undefined

\* C19 amended: the wallet send carries destination, data and the gas price
\* times 10^9, and a gas limit if and only if a gas limit was given and is not
\* zero: a gas limit of 0 is left out like a missing one.
C19_GasLimitIffTruthy ==
    IsDirectSend =>
        /\ DirectSendCarries
        /\ last.params.gasLimit # Undefined <=> last.gasLimit \notin {Undefined, 0}

\* C19 witness: a send with gas price "20" and a gas limit of 0 was confirmed.
C19_Witness ==
    /\ IsDirectSend
    /\ last.error = "none"
    /\ last.gasPrice = <<2, 0>>
    /\ last.gasLimit = 0
    /\ last.params.gasLimit = Undefined

====
